---- MODULE Spec2Model ----
(***************************************************************************)
(* supacache: an encrypted read-through cache (Cloudflare Worker + D1) in  *)
(* front of Supabase.  The model follows src/src/index.ts: one action per  *)
(* stretch of the fetch handler between two awaits on I/O, the D1 table as *)
(* the only shared state, and the helper functions as operators.           *)
(***************************************************************************)
EXTENDS Integers, Sequences, FiniteSets, TLC

(***************************************************************************)
(* Bounds of the model.                                                    *)
(***************************************************************************)
\* Number of requests the worker handles in one behaviour.
MaxRequests == 2
\* The clock runs from 0 to MaxTime (seconds).
MaxTime == 4
\* Length of a UTC day in clock seconds (86400 scaled down).
SecondsPerDay == 3

(***************************************************************************)
(* Strings.  The state holds TLA+ strings; the code's string operations    *)
(* (includes, match, parseInt) work on the characters, given by Chars.     *)
(***************************************************************************)
Chars(s) ==
    CASE s = "https://w/rest/v1/t?select=*" ->
           <<"h", "t", "t", "p", "s", ":", "/", "/", "w", "/", "r", "e", "s", "t", "/", "v", "1", "/", "t", "?", "s", "e", "l", "e", "c", "t", "=", "*">>
      [] s = "https://w/rest/v1/t?id=eq.1" ->
           <<"h", "t", "t", "p", "s", ":", "/", "/", "w", "/", "r", "e", "s", "t", "/", "v", "1", "/", "t", "?", "i", "d", "=", "e", "q", ".", "1">>
      [] s = "https://w/functions/v1/f" ->
           <<"h", "t", "t", "p", "s", ":", "/", "/", "w", "/", "f", "u", "n", "c", "t", "i", "o", "n", "s", "/", "v", "1", "/", "f">>
      [] s = "https://w/realtime/v1/x" ->
           <<"h", "t", "t", "p", "s", ":", "/", "/", "w", "/", "r", "e", "a", "l", "t", "i", "m", "e", "/", "v", "1", "/", "x">>
      [] s = "https://w/subscriptions/s" ->
           <<"h", "t", "t", "p", "s", ":", "/", "/", "w", "/", "s", "u", "b", "s", "c", "r", "i", "p", "t", "i", "o", "n", "s", "/", "s">>
      [] s = "/realtime/" ->
           <<"/", "r", "e", "a", "l", "t", "i", "m", "e", "/">>
      [] s = "/subscriptions/" ->
           <<"/", "s", "u", "b", "s", "c", "r", "i", "p", "t", "i", "o", "n", "s", "/">>
      [] s = "/rest/" ->
           <<"/", "r", "e", "s", "t", "/">>
      [] s = "?select=" ->
           <<"?", "s", "e", "l", "e", "c", "t", "=">>
      [] s = "no-store" ->
           <<"n", "o", "-", "s", "t", "o", "r", "e">>
      [] s = "max-age=" ->
           <<"m", "a", "x", "-", "a", "g", "e", "=">>
      [] s = "1" ->
           <<"1">>
      [] s = "2" ->
           <<"2">>
      [] s = "0" ->
           <<"0">>
      [] s = "abc" ->
           <<"a", "b", "c">>
      [] s = "-5" ->
           <<"-", "5">>
      [] s = "2x" ->
           <<"2", "x">>
      [] s = " 2" ->
           <<" ", "2">>
      [] s = "" ->
           <<>>
      [] s = "max-age=2" ->
           <<"m", "a", "x", "-", "a", "g", "e", "=", "2">>
      [] s = "no-cache" ->
           <<"n", "o", "-", "c", "a", "c", "h", "e">>
      [] s = "max-age=\\d" ->
           <<"m", "a", "x", "-", "a", "g", "e", "=", "\\", "d">>
      [] s = "public, max-age=1" ->
           <<"p", "u", "b", "l", "i", "c", ",", " ", "m", "a", "x", "-", "a", "g", "e", "=", "1">>
      [] s = "no-store, max-age=2" ->
           <<"n", "o", "-", "s", "t", "o", "r", "e", ",", " ", "m", "a", "x", "-", "a", "g", "e", "=", "2">>
      [] s = "private" ->
           <<"p", "r", "i", "v", "a", "t", "e">>
      [] s = "https://w/rest/v1/t?select=*&p=/realtime/" ->
           <<"h", "t", "t", "p", "s", ":", "/", "/", "w", "/", "r", "e", "s", "t", "/", "v", "1", "/", "t", "?", "s", "e", "l", "e", "c", "t", "=", "*", "&", "p", "=", "/", "r", "e", "a", "l", "t", "i", "m", "e", "/">>
      [] s = "https://w/rest/v1/t?id=eq.1&select=*" ->
           <<"h", "t", "t", "p", "s", ":", "/", "/", "w", "/", "r", "e", "s", "t", "/", "v", "1", "/", "t", "?", "i", "d", "=", "e", "q", ".", "1", "&", "s", "e", "l", "e", "c", "t", "=", "*">>
      [] s = "https://w/storage/v1/o?p=/rest/" ->
           <<"h", "t", "t", "p", "s", ":", "/", "/", "w", "/", "s", "t", "o", "r", "a", "g", "e", "/", "v", "1", "/", "o", "?", "p", "=", "/", "r", "e", "s", "t", "/">>
      [] s = "https://w:8443/functions/v1/f" ->
           <<"h", "t", "t", "p", "s", ":", "/", "/", "w", ":", "8", "4", "4", "3", "/", "f", "u", "n", "c", "t", "i", "o", "n", "s", "/", "v", "1", "/", "f">>
      [] s = "https://db.supabase.co" ->
           <<"h", "t", "t", "p", "s", ":", "/", "/", "d", "b", ".", "s", "u", "p", "a", "b", "a", "s", "e", ".", "c", "o">>

Digits == <<"0", "1", "2", "3", "4", "5", "6", "7", "8", "9">>

IsDigit(c) == \E i \in 1..10 : Digits[i] = c

DigitVal(c) == (CHOOSE i \in 1..10 : Digits[i] = c) - 1

\* String.prototype.includes on character sequences.
IncludesChars(s, sub) ==
    \E i \in 0..(Len(s) - Len(sub)) : SubSeq(s, i + 1, i + Len(sub)) = sub

Includes(str, sub) == IncludesChars(Chars(str), Chars(sub))

\* A JS number that may be NaN: <<>> is NaN, <<n>> is the number n.
NaN == <<>>

RECURSIVE DigitsValue(_, _)
\* Value of the longest run of decimal digits at the head of s, after acc.
DigitsValue(s, acc) ==
    IF s = <<>> \/ ~IsDigit(Head(s)) THEN acc
    ELSE DigitsValue(Tail(s), 10 * acc + DigitVal(Head(s)))

RECURSIVE SkipSpace(_)
SkipSpace(s) == IF s # <<>> /\ Head(s) = " " THEN SkipSpace(Tail(s)) ELSE s

\* Number.parseInt(s, 10) on a character sequence.
ParseIntChars(s) ==
    LET t == SkipSpace(s)
        neg == t # <<>> /\ Head(t) = "-"
        u == IF t # <<>> /\ Head(t) \in {"-", "+"} THEN Tail(t) ELSE t
    IN  IF u = <<>> \/ ~IsDigit(Head(u)) THEN NaN
        ELSE <<(IF neg THEN -1 ELSE 1) * DigitsValue(u, 0)>>

RECURSIVE NatToChars(_)
NatToChars(n) ==
    IF n < 10 THEN <<Digits[n + 1]>>
    ELSE NatToChars(n \div 10) \o <<Digits[(n % 10) + 1]>>

\* Number.prototype.toString, for NaN and for integers written in decimal
\* notation (below 10^21).
NumberToChars(x) ==
    IF x = NaN THEN <<"N", "a", "N">>
    ELSE IF x[1] < 0 THEN <<"-">> \o NatToChars(-x[1])
    ELSE NatToChars(x[1])

RECURSIVE RunOf(_, _)
\* The longest prefix of s made of the character c.
RunOf(s, c) ==
    IF s # <<>> /\ Head(s) = c THEN <<c>> \o RunOf(Tail(s), c) ELSE <<>>

\* cacheControl.match(/max-age=(\\d+)/): in a regex literal \\ is a literal
\* backslash, so the pattern is "max-age=", a backslash, then one or more
\* letters d.  <<>> is null (no match), <<g>> carries capture group 1.
MaxAgeMatch(cc) ==
    LET pre == Chars("max-age=") \o <<"\\", "d">>
        n == Len(pre)
        hits == {i \in 0..(Len(cc) - n) : SubSeq(cc, i + 1, i + n) = pre}
    IN  IF hits = {} THEN <<>>
        ELSE LET i == CHOOSE j \in hits : \A k \in hits : j <= k
             IN  <<(<<"\\">> \o RunOf(SubSeq(cc, i + Len(pre), Len(cc)), "d"))>>

(***************************************************************************)
(* URLs.                                                                   *)
(***************************************************************************)
\* Index of the first occurrence of sub in s at or after from, or
\* Len(s) + 1 when there is none.
IndexOfChars(s, sub, from) ==
    LET hits == {i \in from..(Len(s) - Len(sub) + 1) :
                    SubSeq(s, i, i + Len(sub) - 1) = sub}
    IN  IF hits = {} THEN Len(s) + 1
        ELSE CHOOSE i \in hits : \A j \in hits : i <= j

\* new URL(text): the components of an absolute URL given as characters.
URLparse(s) ==
    LET colon == IndexOfChars(s, <<":", "/", "/">>, 1)
        start == colon + 3
        slash == IndexOfChars(s, <<"/">>, start)
        quest == IndexOfChars(s, <<"?">>, start)
        endAuthority == IF slash < quest THEN slash ELSE quest
        authority == SubSeq(s, start, endAuthority - 1)
        portAt == IndexOfChars(authority, <<":">>, 1)
    IN  [protocol |-> SubSeq(s, 1, colon - 1),
         hostname |-> SubSeq(authority, 1, portAt - 1),
         port |-> SubSeq(authority, portAt + 1, Len(authority)),
         pathname |-> SubSeq(s, endAuthority, quest - 1),
         search |-> SubSeq(s, quest, Len(s))]

\* url.toString()
URLtoString(u) ==
    u.protocol \o <<":", "/", "/">> \o u.hostname
    \o (IF u.port = <<>> THEN <<>> ELSE <<":">> \o u.port)
    \o u.pathname \o u.search

(***************************************************************************)
(* Headers: a list of <<name, value>> pairs with lower-case names.         *)
(***************************************************************************)
\* Headers.delete(name)
HeadersDelete(headers, name) ==
    LET Keep(h) == h[1] # name IN SelectSeq(headers, Keep)

\* Headers.get(name): <<>> is null, <<v>> the value.
HeaderGet(headers, name) ==
    LET idx == {i \in 1..Len(headers) : headers[i][1] = name}
    IN  IF idx = {} THEN <<>>
        ELSE <<headers[CHOOSE i \in idx : \A j \in idx : i <= j][2]>>

\* A JS string is truthy when it is neither null nor empty.
Truthy(opt) == opt # <<>> /\ opt[1] # ""

(***************************************************************************)
(* parseTTL                                                                *)
(***************************************************************************)
defaultTTL == 900

\* parseTTL without the fallback to the default for an unusable number.
parseTTLNoFallback(headers) ==
    LET ttlHeader == HeaderGet(headers, "x-ttl")
        useTTL == IF Truthy(ttlHeader) THEN ParseIntChars(Chars(ttlHeader[1]))
                  ELSE <<defaultTTL>>
    IN  IF useTTL # NaN THEN useTTL[1] ELSE 0

\* parseTTL that takes a TTL of zero as valid.
parseTTLAcceptsZero(headers) ==
    LET ttlHeader == HeaderGet(headers, "x-ttl")
        cacheControl == HeaderGet(headers, "cache-control")
        maxAgeMatch == IF Truthy(cacheControl)
                       THEN MaxAgeMatch(Chars(cacheControl[1])) ELSE <<>>
        useTTL == IF Truthy(ttlHeader) THEN ParseIntChars(Chars(ttlHeader[1]))
                  ELSE IF maxAgeMatch # <<>> THEN ParseIntChars(maxAgeMatch[1])
                  ELSE <<defaultTTL>>
        ttl == ParseIntChars(NumberToChars(useTTL))
    IN  IF ttl # NaN /\ ttl[1] >= 0 THEN ttl[1] ELSE defaultTTL

parseTTL(headers) ==
    LET ttlHeader == HeaderGet(headers, "x-ttl")
        cacheControl == HeaderGet(headers, "cache-control")
        maxAgeMatch == IF Truthy(cacheControl)
                       THEN MaxAgeMatch(Chars(cacheControl[1])) ELSE <<>>
        initial == ParseIntChars(NumberToChars(<<defaultTTL>>))
        useTTL == IF Truthy(ttlHeader) THEN ParseIntChars(Chars(ttlHeader[1]))
                  ELSE IF maxAgeMatch # <<>> THEN ParseIntChars(maxAgeMatch[1])
                  ELSE initial
        ttl == ParseIntChars(NumberToChars(useTTL))
    IN  IF ttl # NaN /\ ttl[1] > 0 THEN ttl[1] ELSE defaultTTL

(***************************************************************************)
(* Time.  Date.prototype.toISOString gives "YYYY-MM-DDTHH:MM:SS.mmmZ" and  *)
(* SQLite's CURRENT_TIMESTAMP gives "YYYY-MM-DD HH:MM:SS"; both are text   *)
(* and D1 compares them as text.  A timestamp text is the sequence of its  *)
(* fixed-width fields (day number, seconds of the day, milliseconds) with  *)
(* the character code of the separator between date and time.              *)
(***************************************************************************)
CodeT == 84

CodeSpace == 32

toISOString(t) == <<t \div SecondsPerDay, CodeT, t % SecondsPerDay, 0>>

CURRENT_TIMESTAMP(t) == <<t \div SecondsPerDay, CodeSpace, t % SecondsPerDay>>

\* a > b for two texts, as SQLite's binary collation orders them.
TextGreater(a, b) ==
    LET m == IF Len(a) < Len(b) THEN Len(a) ELSE Len(b)
        diff == {i \in 1..m : a[i] # b[i]}
    IN  IF diff = {} THEN Len(a) > Len(b)
        ELSE LET i == CHOOSE j \in diff : \A k \in diff : j <= k
             IN  a[i] > b[i]

(***************************************************************************)
(* JSON and the codecs.  A text is [val, form]: val is <<v>> when the text *)
(* is JSON for the value v and <<>> when it is not JSON; form tells texts  *)
(* of one value apart.  <<>> as a result stands for a thrown exception.    *)
(***************************************************************************)
JSONparse(text) == text.val

JSONstringify(v) == [val |-> <<v>>, form |-> "canonical"]

\* compress-json
compress(v) == [cj |-> v]

\* decompress that hands back the compressed table it was given.
decompressKeepsTable(c) == IF DOMAIN c = {"cj"} THEN <<c>> ELSE <<>>

decompress(c) == IF DOMAIN c = {"cj"} THEN <<c.cj>> ELSE <<>>

gzipCompress(data) == [gz |-> data]

gzipExpand(compressedData) ==
    IF DOMAIN compressedData = {"gz"} THEN <<compressedData.gz>> ELSE <<>>

getEncryptionKey(secretKey) == [aes |-> secretKey]

\* btoa of a buffer.
arrayBufferToBase64(buffer) == [b64 |-> buffer]

\* atob: <<buffer>>, or <<>> when the text is not base64 (atob throws).
base64ToArrayBuffer(base64) ==
    IF DOMAIN base64 = {"b64"} THEN <<base64.b64>> ELSE <<>>

\* The key of bytes that authenticate under no key.
NoKey == [none |-> TRUE]

\* The envelope `${iv}:${ciphertext}` is the list of its ':'-separated
\* components.  AES-GCM: the ciphertext with its tag is determined by key, iv
\* and data, written [k, iv, pt].
encrypt(data, key, iv) ==
    <<arrayBufferToBase64(iv),
      arrayBufferToBase64([k |-> key, iv |-> iv, pt |-> data])>>

\* decrypt: split(":") and take the first two components (a missing one is
\* undefined, which atob rejects); <<>> when anything throws.
decrypt(encryptedData, key) ==
    LET iv == IF Len(encryptedData) >= 1
              THEN base64ToArrayBuffer(encryptedData[1]) ELSE <<>>
        ciphertext == IF Len(encryptedData) >= 2
                      THEN base64ToArrayBuffer(encryptedData[2]) ELSE <<>>
    IN  IF iv = <<>> \/ ciphertext = <<>> THEN <<>>
        ELSE IF ciphertext[1].k = key /\ ciphertext[1].iv = iv[1]
        THEN <<ciphertext[1].pt>> ELSE <<>>

(***************************************************************************)
(* Environment bindings and the eligibility policy.                        *)
(***************************************************************************)
SERVICE_AUTH_KEY == "secret"

D1_CACHESTORE_ENCRYPTION_KEY == "k1"

bypassCacheOnPath == {"/realtime/", "/subscriptions/"}

\* isValidServiceKey with a guard that lets a missing key through.
isValidServiceKeyLoose(key, expectedKey) == key = <<>> \/ key = <<expectedKey>>

isValidServiceKey(key, expectedKey) == key = <<expectedKey>>

generateCacheKey(url) == <<"md5", url>>

\* canCacheEndpoint that tests the first bypass path only.
canCacheEndpointFirstOnly(url) == ~Includes(url, "/realtime/")

canCacheEndpoint(url) == ~ \E path \in bypassCacheOnPath : Includes(url, path)

ResponseOk(response) == response.status >= 200 /\ response.status <= 299

\* shouldCacheResponse without the request-method test.
shouldCacheResponseAnyMethod(request, response) ==
    LET cc == HeaderGet(response.headers, "cache-control")
    IN  IF ~ResponseOk(response) THEN FALSE
        ELSE IF cc # <<>> /\ Includes(cc[1], "no-store") THEN FALSE
        ELSE IF Includes(request.url, "/rest/")
                /\ ~Includes(request.url, "?select=") THEN FALSE
        ELSE TRUE

\* shouldCacheResponse without the response.ok and status tests.
shouldCacheResponseAnyStatus(request, response) ==
    LET cc == HeaderGet(response.headers, "cache-control")
    IN  IF cc # <<>> /\ Includes(cc[1], "no-store") THEN FALSE
        ELSE IF request.method # "GET" /\ request.method # "HEAD" THEN FALSE
        ELSE IF Includes(request.url, "/rest/")
                /\ ~Includes(request.url, "?select=") THEN FALSE
        ELSE TRUE

shouldCacheResponse(request, response) ==
    LET cc == HeaderGet(response.headers, "cache-control")
    IN  IF ~ResponseOk(response) THEN FALSE
        ELSE IF response.status < 200 \/ response.status >= 300 THEN FALSE
        ELSE IF cc # <<>> /\ Includes(cc[1], "no-store") THEN FALSE
        ELSE IF request.method # "GET" /\ request.method # "HEAD" THEN FALSE
        ELSE IF Includes(request.url, "/rest/")
                /\ ~Includes(request.url, "?select=") THEN FALSE
        ELSE TRUE

(***************************************************************************)
(* The store adapter.                                                      *)
(***************************************************************************)
\* The row the SELECT of getCachedResponse returns at time t: <<>> or <<row>>.
SelectFresh(db, cacheKey, t) ==
    IF cacheKey \in DOMAIN db
       /\ TextGreater(db[cacheKey].expires, CURRENT_TIMESTAMP(t))
    THEN <<db[cacheKey]>> ELSE <<>>

\* parseD1Row that forgets the compress-json stage.
parseD1RowNoDecompress(row, encryptionKey) ==
    LET decryptedBody == decrypt(row.body, encryptionKey)
        gzipDecompressedBody ==
            IF decryptedBody = <<>> THEN <<>> ELSE gzipExpand(decryptedBody[1])
        parsed ==
            IF gzipDecompressedBody = <<>> THEN <<>>
            ELSE JSONparse(gzipDecompressedBody[1])
    IN  IF parsed = <<>> THEN <<>>
        ELSE <<[key |-> row.key, body |-> JSONstringify(parsed[1]),
                status |-> row.status, headers |-> row.headers,
                expires |-> row.expires]>>

\* <<>> is null (the catch of parseD1Row), <<data>> the decoded row.
parseD1Row(row, encryptionKey) ==
    LET decryptedBody == decrypt(row.body, encryptionKey)
        gzipDecompressedBody ==
            IF decryptedBody = <<>> THEN <<>> ELSE gzipExpand(decryptedBody[1])
        parsed ==
            IF gzipDecompressedBody = <<>> THEN <<>>
            ELSE JSONparse(gzipDecompressedBody[1])
        value == IF parsed = <<>> THEN <<>> ELSE decompress(parsed[1])
    IN  IF value = <<>> THEN <<>>
        ELSE <<[key |-> row.key, body |-> JSONstringify(value[1]),
                status |-> row.status, headers |-> row.headers,
                expires |-> row.expires]>>

\* new Headers(init) for a parsed JSON value that is a list: <<>> when it
\* throws (an item that is not a [name, value] pair), else <<headers>>.
NewHeaders(init) ==
    IF \A i \in 1..Len(init) : Len(init[i]) = 2 THEN <<init>> ELSE <<>>

NullBodyStatus == {101, 103, 204, 205, 304}

\* new Response(body, {status, headers}) with a body: <<>> when it throws (a
\* status outside 200..599, or a status that admits no body).
NewResponse(body, status, headers) ==
    IF status \notin 200..599 \/ status \in NullBodyStatus THEN <<>>
    ELSE <<[status |-> status, headers |-> headers, body |-> body]>>

\* Lines 264-271: the Response built from a row and its decoded data.
CachedResponse(row, data) ==
    LET parsed == JSONparse(data.headers)
        headers == IF parsed = <<>> THEN <<>> ELSE NewHeaders(parsed[1])
        response == IF headers = <<>> THEN <<>>
                    ELSE NewResponse(data.body, row.status, headers[1])
    IN  IF response = <<>> THEN [tag |-> "throw"]
        ELSE [tag |-> "response", response |-> response[1]]

\* getCachedResponse without the null test on the decoded row: reading
\* data.headers of null throws.
getCachedResponseNoNullCheck(cacheKey, db, t, encryptionKey) ==
    LET result == SelectFresh(db, cacheKey, t)
        data == IF result = <<>> THEN <<>>
                ELSE parseD1Row(result[1], encryptionKey)
    IN  IF result = <<>> THEN [tag |-> "null"]
        ELSE IF data = <<>> THEN [tag |-> "throw"]
        ELSE CachedResponse(result[1], data[1])

SUPABASE_URL == "https://db.supabase.co"

\* fetchFromSupabase that forwards the x-ttl header.
fetchFromSupabaseKeepsTtl(request, supabaseUrl) ==
    LET url == [URLparse(Chars(request.url)) EXCEPT
                   !.protocol = <<"h", "t", "t", "p", "s">>,
                   !.hostname = URLparse(Chars(supabaseUrl)).hostname]
    IN  [method |-> request.method,
         url |-> URLtoString(url),
         headers |-> HeadersDelete(request.headers, "x-cache-service-key")]

\* The request fetchFromSupabase hands to fetch, lines 342-358.
fetchFromSupabase(request, supabaseUrl) ==
    LET url == [URLparse(Chars(request.url)) EXCEPT
                   !.protocol = <<"h", "t", "t", "p", "s">>,
                   !.hostname = URLparse(Chars(supabaseUrl)).hostname]
        headers == HeadersDelete(HeadersDelete(request.headers,
                                               "x-cache-service-key"), "x-ttl")
    IN  [method |-> request.method,
         url |-> URLtoString(url),
         headers |-> headers]

\* [tag |-> "null"], [tag |-> "throw"] or [tag |-> "response", response |-> r]
getCachedResponse(cacheKey, db, t, encryptionKey) ==
    LET result == SelectFresh(db, cacheKey, t)
        data == IF result = <<>> THEN <<>>
                ELSE parseD1Row(result[1], encryptionKey)
    IN  IF result = <<>> \/ data = <<>> THEN [tag |-> "null"]
        ELSE CachedResponse(result[1], data[1])

\* EncodeRow that adds the TTL to the clock as if it were milliseconds.
EncodeRowTtlAsMillis(cacheKey, body, response, ttl, t, encryptionKey, iv) ==
    LET parsed == JSONparse(body)
    IN  IF parsed = <<>> THEN <<>>
        ELSE <<[key |-> cacheKey,
                body |-> encrypt(gzipCompress(JSONstringify(compress(parsed[1]))),
                                 encryptionKey, iv),
                status |-> response.status,
                headers |-> JSONstringify(response.headers),
                expires |-> toISOString(t + (ttl \div 1000))]>>

\* cacheResponse without the gzip stage.
EncodeRowSkipsGzip(cacheKey, body, response, ttl, t, encryptionKey, iv) ==
    LET parsed == JSONparse(body)
    IN  IF parsed = <<>> THEN <<>>
        ELSE <<[key |-> cacheKey,
                body |-> encrypt(JSONstringify(compress(parsed[1])),
                                 encryptionKey, iv),
                status |-> response.status,
                headers |-> JSONstringify(response.headers),
                expires |-> toISOString(t + ttl)]>>

\* cacheResponse that stores the text of a body that is not JSON.
EncodeRowStoresText(cacheKey, body, response, ttl, t, encryptionKey, iv) ==
    LET parsed == JSONparse(body)
        text == IF parsed = <<>> THEN body
                ELSE JSONstringify(compress(parsed[1]))
    IN  <<[key |-> cacheKey,
           body |-> encrypt(gzipCompress(text), encryptionKey, iv),
           status |-> response.status,
           headers |-> JSONstringify(response.headers),
           expires |-> toISOString(t + ttl)]>>

\* The row cacheResponse binds to its INSERT OR REPLACE, <<>> when building
\* it throws (the body is not JSON).
EncodeRow(cacheKey, body, response, ttl, t, encryptionKey, iv) ==
    LET expires == toISOString(t + ttl)
        headers == JSONstringify(response.headers)
        parsed == JSONparse(body)
    IN  IF parsed = <<>> THEN <<>>
        ELSE <<[key |-> cacheKey,
                body |-> encrypt(gzipCompress(JSONstringify(compress(parsed[1]))),
                                 encryptionKey, iv),
                status |-> response.status,
                headers |-> headers,
                expires |-> expires]>>

\* An insert that, on a key the table holds, keeps the expires of the old row.
UpsertKeepsExpires(db, row) ==
    [k \in DOMAIN db \cup {row.key} |->
        IF k # row.key THEN db[k]
        ELSE IF k \in DOMAIN db THEN [row EXCEPT !.expires = db[k].expires]
        ELSE row]

\* INSERT OR REPLACE
Upsert(db, row) ==
    [k \in DOMAIN db \cup {row.key} |-> IF k = row.key THEN row ELSE db[k]]

(***************************************************************************)
(* Requests and upstream responses.                                        *)
(***************************************************************************)
\* Initialisation vectors crypto.getRandomValues may produce.
Nonces == {1, 2}

Opt(name, v) == IF v = <<>> THEN <<>> ELSE <<(<<name, v[1]>>)>>

MkRequest(method, url, key, xttl, cc) ==
    [method |-> method, url |-> url,
     headers |-> Opt("x-cache-service-key", key) \o Opt("x-ttl", xttl)
                 \o Opt("cache-control", cc)]

ServiceKeys == {<<>>, <<"wrong">>, <<SERVICE_AUTH_KEY>>}

Methods == {"GET", "HEAD", "POST"}

SelectUrl == "https://w/rest/v1/t?select=*"

Urls == {SelectUrl, "https://w/rest/v1/t?id=eq.1", "https://w/functions/v1/f",
         "https://w/realtime/v1/x", "https://w/subscriptions/s"}

\* URLs that tell the path of a URL from its query string, and a first query
\* parameter from a later one.
PolicyUrls ==
    {SelectUrl, "https://w/rest/v1/t?id=eq.1",
     "https://w/rest/v1/t?id=eq.1&select=*",
     "https://w/rest/v1/t?select=*&p=/realtime/",
     "https://w/storage/v1/o?p=/rest/",
     "https://w:8443/functions/v1/f",
     "https://w/realtime/v1/x", "https://w/subscriptions/s"}

XTtls == {<<>>, <<"">>, <<"1">>, <<"2">>, <<"0">>, <<"abc">>, <<"-5">>, <<"2x">>}

CacheControls == {<<>>, <<"max-age=2">>, <<"no-cache">>, <<"max-age=\\d">>,
                  <<"public, max-age=1">>}

\* The requests a behaviour of the given workload draws from.
Requests(workload) ==
    IF workload = "ttl"
    THEN {MkRequest("GET", SelectUrl, <<SERVICE_AUTH_KEY>>, x, c) :
            x \in XTtls, c \in CacheControls}
         \cup
         {MkRequest("GET", "https://w/realtime/v1/x", <<SERVICE_AUTH_KEY>>,
                    <<"1">>, <<>>)}
    ELSE IF workload = "race"
    THEN {MkRequest("GET", SelectUrl, <<SERVICE_AUTH_KEY>>, x, <<>>) :
            x \in {<<"1">>, <<"2">>}}
         \cup
         {MkRequest("GET", "https://w/realtime/v1/x", <<SERVICE_AUTH_KEY>>,
                    <<"1">>, <<>>)}
    ELSE IF workload = "hit"
    THEN {MkRequest(m, SelectUrl, <<SERVICE_AUTH_KEY>>, <<"1">>, <<>>) :
            m \in Methods}
         \cup
         {[MkRequest(m, SelectUrl, <<SERVICE_AUTH_KEY>>, <<"2">>, <<>>) EXCEPT
              !.headers = @ \o <<(<<"authorization", "Bearer a">>)>>] :
            m \in {"GET", "POST"}}
         \cup
         {MkRequest("GET", u, <<SERVICE_AUTH_KEY>>, <<"1">>, <<>>) :
            u \in {"https://w/functions/v1/f", "https://w/realtime/v1/x"}}
    ELSE IF workload = "policy"
    THEN {[MkRequest(m, u, <<SERVICE_AUTH_KEY>>, <<"1">>, <<>>) EXCEPT
              !.headers = @ \o <<(<<"authorization", "Bearer a">>)>>] :
            m \in Methods, u \in PolicyUrls}
    ELSE IF workload = "corrupt"
    THEN {MkRequest(m, SelectUrl, <<SERVICE_AUTH_KEY>>, <<"1">>, <<>>) :
            m \in {"GET", "POST"}}
         \cup
         {MkRequest("GET", SelectUrl, <<"wrong">>, <<"1">>, <<>>)}
         \cup
         {MkRequest("GET", "https://w/realtime/v1/x", <<SERVICE_AUTH_KEY>>,
                    <<"1">>, <<>>)}
    ELSE {MkRequest(m, u, k, <<"1">>, <<>>) :
            m \in {"GET", "POST"},
            u \in {SelectUrl, "https://w/realtime/v1/x"},
            k \in ServiceKeys \ {<<SERVICE_AUTH_KEY>>}}
         \cup
         {MkRequest(m, u, <<SERVICE_AUTH_KEY>>, <<"1">>, <<>>) :
            m \in Methods, u \in Urls}

JsonText(v) == [val |-> <<v>>, form |-> "canonical"]

SpacedText(v) == [val |-> <<v>>, form |-> "spaced"]

NotJson(form) == [val |-> <<>>, form |-> form]

JsonHeaders == <<(<<"content-type", "application/json">>)>>

\* Responses the upstream can give to a request with a body in its answer.
Responses ==
    {[status |-> 200, headers |-> JsonHeaders, body |-> JsonText([id |-> 1])],
     [status |-> 200, headers |-> JsonHeaders, body |-> SpacedText([id |-> 2])],
     [status |-> 200,
      headers |-> JsonHeaders \o <<(<<"cache-control", "no-store">>)>>,
      body |-> JsonText([id |-> 1])],
     [status |-> 404, headers |-> JsonHeaders, body |-> JsonText([id |-> 0])],
     [status |-> 200, headers |-> <<(<<"content-type", "text/html">>)>>,
      body |-> NotJson("html")]}

\* The responses the upstream may give under a workload; a HEAD request is
\* answered without a body.
UpstreamResponses(w, request) ==
    LET rs == IF w = "ttl"
              THEN {r \in Responses : r.body = JsonText([id |-> 1])
                                      /\ Len(r.headers) = 1}
              ELSE IF w = "policy"
              THEN Responses \cup
                   {[status |-> st, headers |-> JsonHeaders,
                     body |-> JsonText([id |-> 1])] : st \in {299, 300}}
              ELSE IF w \in {"race", "hit"}
              THEN {r \in Responses : r.status = 200 /\ r.body.val # <<>>
                                       /\ Len(r.headers) = 1}
              ELSE Responses
    IN  IF request.method = "HEAD"
        THEN {[r EXCEPT !.body = NotJson("empty")] : r \in rs}
        ELSE rs

Unauthorized == [status |-> 401, headers |-> <<>>, body |-> NotJson("Unauthorized")]

InternalServerError ==
    [status |-> 500, headers |-> <<>>, body |-> NotJson("Internal Server Error")]

(***************************************************************************)
(* State.                                                                  *)
(***************************************************************************)
VARIABLES
    workload,   \* the class of requests this behaviour draws from
    store,      \* the D1 table: cache key -> row
    now,        \* the clock, in seconds
    started,    \* number of requests begun so far
    slot,       \* per handler invocation: position, locals and bookkeeping
    written     \* per cache key: which response the row came from, and when

vars == <<workload, store, now, started, slot, written>>

Procs == {1, 2}

\* Invocations that may run at a time under a workload.
Active(w) == IF w \in {"race", "hit"} THEN Procs ELSE {1}

NoRequest == [method |-> "", url |-> "", headers |-> <<>>]

IdleSlot ==
    [pc |-> "idle", request |-> NoRequest, ttl |-> 0,
     supabaseResponse |-> <<>>, pending |-> <<>>,
     result |-> <<>>, threw |-> FALSE,
     nFetch |-> 0, nLookup |-> 0, nWrite |-> 0,
     cache |-> "", lookupAt |-> 0, seen |-> <<>>, lookupErr |-> FALSE,
     found |-> <<>>, decrypted |-> <<>>, got |-> <<>>,
     sent |-> <<>>,
     wtime |-> 0, writeErr |-> FALSE]

InitWith(w) ==
    /\ workload = w
    /\ store = <<>>
    /\ now = 0
    /\ started = 0
    /\ slot = [p \in Procs |-> IdleSlot]
    /\ written = <<>>

\* Requests handled in one behaviour of a workload.
Budget(w) == IF w \in {"ttl", "policy"} THEN MaxRequests - 1 ELSE MaxRequests

\* A catch block that always answers with the internal server error.
CatchResultAlways500(supabaseResponse) == <<InternalServerError>>

\* The catch block of the handler, lines 111-138: the Supabase response when
\* there is one, else the internal server error response.
CatchResult(supabaseResponse) ==
    IF supabaseResponse # <<>> THEN supabaseResponse
    ELSE <<InternalServerError>>

Init == InitWith("serial")

\* Bodies a row of the table may hold when the handler finds it: the one
\* cacheResponse stored, and that body written under another encryption key,
\* with its nonce or its ciphertext altered, cut to a text without ':', with
\* text appended after a second ':', or holding a payload that is not gzip,
\* not JSON, or not compress-json output.
StoredBodies ==
    LET key == getEncryptionKey(D1_CACHESTORE_ENCRYPTION_KEY)
        payload == gzipCompress(JSONstringify(compress([id |-> 1])))
        good == encrypt(payload, key, 1)
    IN  {good,
         encrypt(payload, getEncryptionKey("k0"), 1),
         <<arrayBufferToBase64(2), good[2]>>,
         <<good[1], arrayBufferToBase64([k |-> NoKey, iv |-> 1,
                                         pt |-> payload])>>,
         <<[text |-> "garbage"]>>,
         good \o <<[text |-> "junk"]>>,
         encrypt([raw |-> "x"], key, 1),
         encrypt(gzipCompress(NotJson("html")), key, 1),
         encrypt(gzipCompress(JsonText([id |-> 1])), key, 1)}

\* Rows the table may hold for SelectUrl when the handler finds it: a row
\* stored with the default TTL whose body is one of StoredBodies, and the
\* row cacheResponse stored with its headers text cut short, with headers
\* that are JSON but hold an item that is no pair, with a status that is no
\* HTTP status, and with an expires that has passed.
StoredRows ==
    LET k == generateCacheKey(SelectUrl)
        good == [key |-> k, body |-> encrypt(
                     gzipCompress(JSONstringify(compress([id |-> 1]))),
                     getEncryptionKey(D1_CACHESTORE_ENCRYPTION_KEY), 1),
                 status |-> 200, headers |-> JSONstringify(JsonHeaders),
                 expires |-> toISOString(defaultTTL)]
    IN  {[good EXCEPT !.body = b] : b \in StoredBodies}
        \cup {[good EXCEPT !.headers = NotJson("cut")],
              [good EXCEPT !.headers = JSONstringify(<<(<<"content-type">>)>>)],
              [good EXCEPT !.status = 99],
              [good EXCEPT !.expires = toISOString(0)]}

\* Two invocations at a time, on a table that holds a row stored for
\* SelectUrl with the default TTL.
InitHit ==
    /\ workload = "hit"
    /\ \E row \in {r \in StoredRows : r.body = encrypt(
                       gzipCompress(JSONstringify(compress([id |-> 1]))),
                       getEncryptionKey(D1_CACHESTORE_ENCRYPTION_KEY), 1)
                     /\ r.status = 200
                     /\ r.headers = JSONstringify(JsonHeaders)
                     /\ r.expires = toISOString(defaultTTL)} :
         store = [k \in {row.key} |-> row]
    /\ now = 0
    /\ started = 0
    /\ slot = [p \in Procs |-> IdleSlot]
    /\ written = <<>>

\* The table holds one row, one of StoredRows.
InitCorrupt ==
    /\ workload = "corrupt"
    /\ \E row \in StoredRows : store = [k \in {row.key} |-> row]
    /\ now = 0
    /\ started = 0
    /\ slot = [p \in Procs |-> IdleSlot]
    /\ written = <<>>

InitTTL == InitWith("ttl")

\* Two invocations of the handler run at a time.
InitRace == InitWith("race")

\* One request at a time, drawn from every method and PolicyUrls.
InitPolicy == InitWith("policy")

(***************************************************************************)
(* The fetch handler, one action per stretch between awaits on I/O.        *)
(***************************************************************************)
\* Lines 23-60 up to the first I/O: auth, key, TTL, bypass decision.
Begin(p) ==
    /\ p \in Active(workload)
    /\ slot[p].pc \in {"idle", "done"}
    /\ started < Budget(workload)
    /\ \E request \in Requests(workload) :
         LET cacheServiceKey == HeaderGet(request.headers, "x-cache-service-key")
             fresh == [IdleSlot EXCEPT !.request = request]
         IN  slot' = [slot EXCEPT ![p] =
                 IF ~isValidServiceKey(cacheServiceKey, SERVICE_AUTH_KEY)
                 THEN [fresh EXCEPT !.pc = "done", !.result = <<Unauthorized>>]
                 ELSE [fresh EXCEPT
                         !.ttl = parseTTL(request.headers),
                         !.pc = IF canCacheEndpoint(request.url)
                                THEN "lookup" ELSE "bypass"]]
    /\ started' = started + 1
    /\ UNCHANGED <<workload, store, now, written>>

\* Lines 54-60: the bypass route, outside the try block.
BypassFetch(p) ==
    /\ slot[p].pc = "bypass"
    /\ \/ \E r \in UpstreamResponses(workload, slot[p].request) :
            slot' = [slot EXCEPT ![p].pc = "done",
                                 ![p].nFetch = @ + 1,
                                 ![p].supabaseResponse = <<r>>,
                                 ![p].got = <<r>>,
                                 ![p].sent = <<fetchFromSupabase(slot[p].request, SUPABASE_URL)>>,
                                 ![p].result = <<r>>]
       \/ \* the upstream fetch throws and nothing catches it
          slot' = [slot EXCEPT ![p].pc = "done",
                               ![p].nFetch = @ + 1,
                               ![p].sent = <<fetchFromSupabase(slot[p].request, SUPABASE_URL)>>,
                               ![p].threw = TRUE]
    /\ UNCHANGED <<workload, store, now, started, written>>

\* A hit that is answered without a body when the request is a HEAD.
returnCachedByMethod(request, cachedResponse) ==
    IF request.method = "HEAD"
    THEN [cachedResponse EXCEPT !.body = NotJson("empty")]
    ELSE cachedResponse

\* Lines 72-79: the cached response is returned as it is.
returnCached(request, cachedResponse) == cachedResponse

\* Lines 62-85 (and the catch, lines 111-138, when the lookup throws).
Lookup(p) ==
    /\ slot[p].pc = "lookup"
    /\ LET cacheKey == generateCacheKey(slot[p].request.url)
           encryptionKey == getEncryptionKey(D1_CACHESTORE_ENCRYPTION_KEY)
           cached == getCachedResponse(cacheKey, store, now, encryptionKey)
           row == SelectFresh(store, cacheKey, now)
           asked == [slot[p] EXCEPT
                        !.nLookup = @ + 1, !.lookupAt = now,
                        !.seen = IF cacheKey \in DOMAIN written
                                 THEN <<written[cacheKey]>> ELSE <<>>]
           looked == [asked EXCEPT
                        !.found = row,
                        !.decrypted = IF row = <<>> THEN <<>>
                                      ELSE decrypt(row[1].body, encryptionKey)]
       IN  \/ slot' = [slot EXCEPT ![p] =
                  IF cached.tag = "response"
                  THEN [looked EXCEPT !.pc = "done", !.cache = "HIT",
                                      !.result = <<returnCached(
                                          slot[p].request, cached.response)>>]
                  ELSE IF cached.tag = "throw"
                  THEN [looked EXCEPT !.pc = "done",
                                      !.result = CatchResult(<<>>)]
                  ELSE [looked EXCEPT !.pc = "fetch", !.cache = "MISS"]]
           \/ \* the D1 query throws
              slot' = [slot EXCEPT ![p] =
                  [asked EXCEPT !.pc = "done", !.lookupErr = TRUE,
                                 !.result = CatchResult(<<>>)]]
    /\ UNCHANGED <<workload, store, now, started, written>>

\* An upstream fetch that is tried again when it throws.
UpstreamFetchRetry(p) ==
    /\ slot[p].pc = "fetch"
    /\ \/ \E r \in UpstreamResponses(workload, slot[p].request) :
            slot' = [slot EXCEPT ![p] =
                [slot[p] EXCEPT
                   !.nFetch = @ + 1,
                   !.supabaseResponse = <<r>>,
                   !.got = <<r>>,
                   !.pc = IF shouldCacheResponse(slot[p].request, r)
                          THEN "encode" ELSE "done",
                   !.result = IF shouldCacheResponse(slot[p].request, r)
                              THEN <<>> ELSE <<r>>]]
       \/ /\ slot[p].nFetch < 2
          /\ slot' = [slot EXCEPT ![p].nFetch = @ + 1]
    /\ UNCHANGED <<workload, store, now, started, written>>

\* Lines 87-95 and 110 (and the catch when the upstream fetch throws).
UpstreamFetch(p) ==
    /\ slot[p].pc = "fetch"
    /\ \/ \E r \in UpstreamResponses(workload, slot[p].request) :
            slot' = [slot EXCEPT ![p] =
                [slot[p] EXCEPT
                   !.nFetch = @ + 1,
                   !.supabaseResponse = <<r>>,
                   !.got = <<r>>,
                   !.sent = <<fetchFromSupabase(slot[p].request, SUPABASE_URL)>>,
                   !.pc = IF shouldCacheResponse(slot[p].request, r)
                          THEN "encode" ELSE "done",
                   !.result = IF shouldCacheResponse(slot[p].request, r)
                              THEN <<>> ELSE <<r>>]]
       \/ \* the upstream fetch throws
          slot' = [slot EXCEPT ![p].pc = "done",
                               ![p].nFetch = @ + 1,
                               ![p].sent = <<fetchFromSupabase(slot[p].request, SUPABASE_URL)>>,
                               ![p].result = CatchResult(<<>>)]
    /\ UNCHANGED <<workload, store, now, started, written>>

\* Reading the body without cloning: the response is left with a used body.
textNoClone(response) ==
    [text |-> response.body,
     response |-> [response EXCEPT !.body = NotJson("consumed")]]

\* supabaseResponse.clone().text(), line 95: the body text, and the response
\* as the read leaves it.
cloneText(response) == [text |-> response.body, response |-> response]

\* Line 95, then cacheResponse, lines 431-446: Date.now(), encoding,
\* encryption.
CacheEncode(p) ==
    /\ slot[p].pc = "encode"
    /\ \E iv \in Nonces :
         LET read == cloneText(slot[p].supabaseResponse[1])
             response == read.response
             row == EncodeRow(generateCacheKey(slot[p].request.url),
                              read.text, response, slot[p].ttl, now,
                              getEncryptionKey(D1_CACHESTORE_ENCRYPTION_KEY), iv)
         IN  slot' = [slot EXCEPT ![p] =
                 IF row = <<>>
                 THEN [slot[p] EXCEPT
                         !.pc = "done", !.writeErr = TRUE, !.wtime = now,
                         !.supabaseResponse = <<response>>,
                         !.result = CatchResult(<<response>>)]
                 ELSE [slot[p] EXCEPT !.pc = "insert", !.wtime = now,
                                      !.supabaseResponse = <<response>>,
                                      !.pending = row]]
    /\ UNCHANGED <<workload, store, now, started, written>>

\* cacheResponse, lines 453-459, then line 110 (or the catch).
CacheInsert(p) ==
    /\ slot[p].pc = "insert"
    /\ LET row == slot[p].pending[1]
           response == slot[p].supabaseResponse[1]
       IN  \/ /\ store' = Upsert(store, row)
              /\ written' = [k \in DOMAIN written \cup {row.key} |->
                               IF k = row.key
                               THEN [response |-> response,
                                     request |-> slot[p].request,
                                     wtime |-> slot[p].wtime,
                                     ttl |-> slot[p].ttl]
                               ELSE written[k]]
              /\ slot' = [slot EXCEPT ![p].pc = "done",
                                      ![p].nWrite = @ + 1,
                                      ![p].result = <<response>>]
           \/ \* the D1 statement throws
              /\ slot' = [slot EXCEPT ![p].pc = "done",
                                      ![p].nWrite = @ + 1,
                                      ![p].writeErr = TRUE,
                                      ![p].result =
                                          CatchResult(slot[p].supabaseResponse)]
              /\ UNCHANGED <<store, written>>
    /\ UNCHANGED <<workload, now, started>>

\* Seconds a behaviour of a workload lasts: concurrent requests are followed
\* over a shorter time.
Horizon(w) == IF w \in {"race", "policy", "hit"} THEN MaxTime - 3 ELSE MaxTime

\* Time passes, and a sweep removes the rows that have expired.
TickSweeps ==
    /\ now < Horizon(workload)
    /\ now' = now + 1
    /\ store' = [k \in {j \in DOMAIN store :
                            TextGreater(store[j].expires,
                                        CURRENT_TIMESTAMP(now + 1))} |->
                    store[k]]
    /\ UNCHANGED <<workload, started, slot, written>>

\* Time passes.
Tick ==
    /\ now < Horizon(workload)
    /\ now' = now + 1
    /\ UNCHANGED <<workload, store, started, slot, written>>

Next ==
    \/ \E p \in Procs : Begin(p)
    \/ \E p \in Procs : BypassFetch(p)
    \/ \E p \in Procs : Lookup(p)
    \/ \E p \in Procs : UpstreamFetch(p)
    \/ \E p \in Procs : CacheEncode(p)
    \/ \E p \in Procs : CacheInsert(p)
    \/ Tick

Spec == Init /\ [][Next]_vars

SpecTTL == InitTTL /\ [][Next]_vars

SpecCorrupt == InitCorrupt /\ [][Next]_vars

SpecRace == InitRace /\ [][Next]_vars

SpecPolicy == InitPolicy /\ [][Next]_vars

SpecHit == InitHit /\ [][Next]_vars

\* What invocation p does once its pending I/O has returned or raised.
Resume(p) ==
    \/ BypassFetch(p)
    \/ Lookup(p)
    \/ UpstreamFetch(p)
    \/ CacheEncode(p)
    \/ CacheInsert(p)

\* Two invocations at a time, where every await of invocation 1 eventually
\* returns or raises; nothing is assumed of invocation 2.
SpecLive == InitRace /\ [][Next]_vars /\ WF_vars(Resume(1))

TypeOK ==
    /\ now \in 0..MaxTime
    /\ started \in 0..MaxRequests
    /\ \A p \in Procs : slot[p].pc \in
         {"idle", "bypass", "lookup", "fetch", "encode", "insert", "done"}

(***************************************************************************)
(* Vocabulary of the properties.                                           *)
(***************************************************************************)
Started(s) == s.pc # "idle"

Done(s) == s.pc = "done"

Authorized(s) ==
    /\ Started(s)
    /\ HeaderGet(s.request.headers, "x-cache-service-key") = <<SERVICE_AUTH_KEY>>

OnBypassRoute(s) ==
    \/ Includes(s.request.url, "/realtime/")
    \/ Includes(s.request.url, "/subscriptions/")

\* The instant a row written at wtime with TTL ttl expires.
ExpiryOf(w) == w.wtime + w.ttl

\* The lookup of s ran against a row that some request had written.
LookedAtRow(s) == s.nLookup = 1 /\ s.seen # <<>>

\* What an X-TTL value means when it parses to a positive integer.
PositiveXTtl(v) ==
    CASE v = "1" -> <<1>> [] v = "2" -> <<2>> [] v = "2x" -> <<2>>
      [] OTHER -> <<>>

\* The n of a max-age=<n> directive in a Cache-Control value.
MaxAgeOf(v) ==
    CASE v = "max-age=2" -> <<2>> [] v = "public, max-age=1" -> <<1>>
      [] OTHER -> <<>>

\* C1: a request whose x-cache-service-key is missing or differs from
\* SERVICE_AUTH_KEY gets the 401 response and makes no upstream fetch, no
\* store lookup and no store write.
UnauthorizedTouchesNothing ==
    \A p \in Procs :
        (Started(slot[p]) /\ ~Authorized(slot[p])) =>
            /\ Done(slot[p])
            /\ ~slot[p].threw
            /\ slot[p].result = <<Unauthorized>>
            /\ slot[p].result[1].status = 401
            /\ slot[p].nFetch = 0 /\ slot[p].nLookup = 0 /\ slot[p].nWrite = 0
            /\ slot[p].supabaseResponse = <<>> /\ slot[p].pending = <<>>

UnauthorizedSeen ==
    \E p \in Procs :
        /\ Done(slot[p])
        /\ HeaderGet(slot[p].request.headers, "x-cache-service-key")
              \in {<<>>, <<"wrong">>}
        /\ slot[p].result = <<Unauthorized>>

\* C2: an authorized request to a bypass route, whatever its method and
\* headers, makes no store lookup and no store write, makes exactly one
\* upstream fetch, and the response that fetch gave is the one returned.
BypassNeverTouchesStore ==
    \A p \in Procs :
        (Authorized(slot[p]) /\ OnBypassRoute(slot[p])) =>
            /\ slot[p].nLookup = 0 /\ slot[p].nWrite = 0
            /\ slot[p].pending = <<>> /\ slot[p].cache = ""
            /\ Done(slot[p]) =>
                 /\ slot[p].nFetch = 1
                 /\ slot[p].supabaseResponse # <<>> =>
                      /\ ~slot[p].threw
                      /\ slot[p].result = slot[p].supabaseResponse

BypassSeen ==
    \E p \in Procs :
        /\ Done(slot[p]) /\ Authorized(slot[p])
        /\ Includes(slot[p].request.url, "/subscriptions/")
        /\ slot[p].request.method = "POST"
        /\ slot[p].nFetch = 1
        /\ slot[p].result = slot[p].supabaseResponse
        /\ slot[p].result # <<>>

\* The case of C3: a cacheable path, and a POST request or an upstream
\* response with no-store or with a status outside 200..299.
NeverStoredCase(s) ==
    /\ Authorized(s) /\ ~OnBypassRoute(s)
    /\ \/ s.request.method = "POST"
       \/ /\ s.supabaseResponse # <<>>
          /\ \/ s.supabaseResponse[1].status \notin 200..299
             \/ LET cc == HeaderGet(s.supabaseResponse[1].headers,
                                    "cache-control")
                IN  cc # <<>> /\ Includes(cc[1], "no-store")

\* C3: on a cacheable path a POST request, a response carrying Cache-Control
\* no-store, or a response whose status is not 2xx never causes a store
\* write: no step of such a request changes the store.
NeverStored ==
    /\ [](\A p \in Procs :
            NeverStoredCase(slot[p]) =>
                slot[p].nWrite = 0 /\ slot[p].pending = <<>>)
    /\ [][\A p \in Procs :
            (slot'[p] # slot[p] /\ NeverStoredCase(slot'[p])) =>
                store' = store]_vars

NeverStoredSeen ==
    \E p \in Procs :
        /\ Done(slot[p]) /\ NeverStoredCase(slot[p])
        /\ slot[p].request.method = "POST"
        /\ slot[p].cache = "MISS"
        /\ slot[p].supabaseResponse # <<>>
        /\ slot[p].supabaseResponse[1].status = 200
        /\ slot[p].supabaseResponse[1].body.val # <<>>
        /\ Len(slot[p].supabaseResponse[1].headers) = 1

\* C4: an entry written at W with ttl T is a hit when looked up before W + T
\* and a miss when looked up at W + T or later (so at W + T + 1 second).
TTLBoundary ==
    \A p \in Procs :
        (LookedAtRow(slot[p]) /\ ~slot[p].lookupErr) =>
            /\ slot[p].lookupAt < ExpiryOf(slot[p].seen[1]) =>
                 slot[p].cache = "HIT"
            /\ slot[p].lookupAt >= ExpiryOf(slot[p].seen[1]) =>
                 slot[p].cache # "HIT"

\* The read-through case of C5: an authorized request on a cacheable path
\* whose lookup is issued while the row a GET request wrote is unexpired.
FreshEntryCase(s) ==
    /\ Done(s) /\ Authorized(s) /\ ~OnBypassRoute(s)
    /\ LookedAtRow(s)
    /\ s.seen[1].request.method = "GET"
    /\ s.seen[1].request.url = s.request.url
    /\ s.lookupAt < ExpiryOf(s.seen[1])

\* The request was answered from the store with what the row came from.
ServedFromStore(s) ==
    /\ s.cache = "HIT"
    /\ s.nFetch = 0 /\ s.nWrite = 0
    /\ s.result # <<>>
    /\ s.result[1].status = s.seen[1].response.status
    /\ s.result[1].headers = s.seen[1].response.headers
    /\ JSONparse(s.result[1].body) = JSONparse(s.seen[1].response.body)

MaxAgeFallback ==
    \A p \in Procs :
        LET x == HeaderGet(slot[p].request.headers, "x-ttl")
            c == HeaderGet(slot[p].request.headers, "cache-control")
        IN  (Authorized(slot[p]) /\ x = <<>> /\ c # <<>>
             /\ MaxAgeOf(c[1]) # <<>>) =>
                slot[p].ttl = MaxAgeOf(c[1])[1]

\* C8: with neither a parseable X-TTL header nor a parseable Cache-Control
\* max-age directive, parseTTL returns the default of 900 seconds.
DefaultTtlApplies ==
    \A p \in Procs :
        LET x == HeaderGet(slot[p].request.headers, "x-ttl")
            c == HeaderGet(slot[p].request.headers, "cache-control")
        IN  (Authorized(slot[p])
             /\ x \in {<<>>, <<"">>, <<"abc">>}
             /\ c \in {<<>>, <<"no-cache">>, <<"max-age=\\d">>}) =>
                slot[p].ttl = 900

DefaultTtlSeen ==
    \E p \in Procs :
        /\ Authorized(slot[p])
        /\ HeaderGet(slot[p].request.headers, "x-ttl") = <<"abc">>
        /\ HeaderGet(slot[p].request.headers, "cache-control")
              = <<"max-age=\\d">>
        /\ slot[p].ttl = 900
        /\ slot[p].pending # <<>>
        /\ slot[p].pending[1].expires = toISOString(slot[p].wtime + 900)

\* C9: when the store lookup raises an error the request goes on to the
\* upstream fetch and the caller gets the upstream response, not the
\* internal failure response.
ReadFailureIsMiss ==
    \A p \in Procs :
        (Done(slot[p]) /\ slot[p].lookupErr) =>
            /\ slot[p].nFetch = 1
            /\ slot[p].result # <<InternalServerError>>
            /\ slot[p].supabaseResponse # <<>> =>
                 slot[p].result = slot[p].supabaseResponse

\* C10: when cacheResponse raises (while encoding or at the INSERT OR
\* REPLACE) the caller gets the upstream response unchanged and the store is
\* left as it was.
WriteFailureSwallowed ==
    /\ [](\A p \in Procs :
            (Done(slot[p]) /\ slot[p].writeErr) =>
                /\ ~slot[p].threw
                /\ slot[p].supabaseResponse # <<>>
                /\ slot[p].result = slot[p].supabaseResponse
                /\ slot[p].supabaseResponse[1]
                      \in UpstreamResponses(workload, slot[p].request))
    /\ [][\A p \in Procs :
            (slot'[p].writeErr /\ ~slot[p].writeErr) => store' = store]_vars

WriteFailureSeen ==
    \E p \in Procs :
        /\ Done(slot[p]) /\ slot[p].writeErr
        /\ slot[p].nWrite = 1
        /\ slot[p].result = slot[p].supabaseResponse

\* The fresh row the lookup of s found has a body that fails decryption or
\* one of the two decompression stages.
DecodeFails(s) ==
    /\ s.nLookup = 1 /\ ~s.lookupErr /\ s.found # <<>>
    /\ \/ s.decrypted = <<>>
       \/ gzipExpand(s.decrypted[1]) = <<>>
       \/ JSONparse(gzipExpand(s.decrypted[1])[1]) = <<>>
       \/ decompress(JSONparse(gzipExpand(s.decrypted[1])[1])[1]) = <<>>

\* C11: when the fresh row found has a body that fails decryption or
\* decompression the lookup is a miss, the request makes exactly one upstream
\* fetch and the caller receives the response of that fetch.
DecodeFailureIsMiss ==
    \A p \in Procs :
        DecodeFails(slot[p]) =>
            /\ slot[p].cache = "MISS"
            /\ slot[p].nFetch <= 1
            /\ Done(slot[p]) =>
                 /\ slot[p].nFetch = 1
                 /\ ~slot[p].threw
                 /\ slot[p].supabaseResponse # <<>> =>
                      slot[p].result = slot[p].supabaseResponse

DecodeFailureSeen ==
    \E p \in Procs :
        /\ Done(slot[p]) /\ DecodeFails(slot[p])
        /\ slot[p].found[1].body = <<[text |-> "garbage"]>>
        /\ slot[p].cache = "MISS" /\ slot[p].nFetch = 1
        /\ slot[p].supabaseResponse # <<>>
        /\ slot[p].result = slot[p].supabaseResponse

\* C12: when the upstream fetch of an authorized request raises before any
\* upstream response exists, on a bypass route as on a cacheable one, the
\* handler returns the 500 response instead of letting the error escape, and
\* does not fetch again.
UpstreamFailureIs500 ==
    \A p \in Procs :
        (Done(slot[p]) /\ Authorized(slot[p])
         /\ slot[p].nFetch >= 1 /\ slot[p].supabaseResponse = <<>>) =>
            /\ slot[p].nFetch = 1
            /\ ~slot[p].threw
            /\ slot[p].result = <<InternalServerError>>

\* The envelope e is what encrypt gives under the key for some data and nonce.
Genuine(e, key) ==
    /\ Len(e) = 2
    /\ DOMAIN e[1] = {"b64"} /\ DOMAIN e[2] = {"b64"}
    /\ e[2].b64.k = key /\ e[2].b64.iv = e[1].b64

\* C13: decrypt gives back the data of an envelope encrypt made under the same
\* key, and raises for an envelope made under another key, one whose nonce
\* or ciphertext was altered, and a string not of the form nonce:ciphertext.
EncryptionFailsClosed ==
    \A p \in Procs :
        slot[p].found # <<>> =>
            LET e == slot[p].found[1].body
                key == getEncryptionKey(D1_CACHESTORE_ENCRYPTION_KEY)
            IN  IF Genuine(e, key)
                THEN slot[p].decrypted = <<e[2].b64.pt>>
                ELSE slot[p].decrypted = <<>>

\* What reversing the stages in reverse order makes of a stored body: <<x>>,
\* or <<>> when a stage raises.
Restored(body) ==
    LET decrypted == decrypt(body, getEncryptionKey(D1_CACHESTORE_ENCRYPTION_KEY))
        expanded == IF decrypted = <<>> THEN <<>> ELSE gzipExpand(decrypted[1])
        parsed == IF expanded = <<>> THEN <<>> ELSE JSONparse(expanded[1])
    IN  IF parsed = <<>> THEN <<>> ELSE decompress(parsed[1])

EligibilityGatesReads ==
    \A p \in Procs :
        (Done(slot[p]) /\ Authorized(slot[p]) /\ ~slot[p].lookupErr
         /\ slot[p].request.method \notin {"GET", "HEAD"}) =>
            /\ slot[p].cache # "HIT"
            /\ slot[p].nFetch = 1

\* The row one cacheResponse call builds from what written records of it.
RowOfOneWrite(k, w, iv) ==
    EncodeRow(k, w.response.body, w.response, w.ttl, w.wtime,
              getEncryptionKey(D1_CACHESTORE_ENCRYPTION_KEY), iv)

\* C17: under every interleaving of concurrent authorized requests for one
\* key, the row the store holds for the key has the body, status, headers and
\* expires of one single cacheResponse call, the last to write, never a
\* mixture of two; and a request that got an upstream response never fails.
LastWriterWins ==
    /\ \A k \in DOMAIN store :
         /\ store[k].key = k
         /\ \E iv \in Nonces : <<store[k]>> = RowOfOneWrite(k, written[k], iv)
    /\ \A p \in Procs :
         (Done(slot[p]) /\ Authorized(slot[p])) =>
             /\ (slot[p].result = <<InternalServerError>> \/ slot[p].threw) =>
                    /\ slot[p].supabaseResponse = <<>>
                    /\ slot[p].lookupErr \/ slot[p].nFetch = 1

\* Two requests missed together, both wrote, and the row is the second write,
\* which differs from the first in body and in expires.
LastWriterWinsSeen ==
    /\ \A p \in Procs : Done(slot[p]) /\ slot[p].nWrite = 1 /\ ~slot[p].writeErr
    /\ slot[1].request.url = slot[2].request.url
    /\ slot[1].lookupAt <= slot[2].wtime /\ slot[2].lookupAt <= slot[1].wtime
    /\ slot[1].cache = "MISS" /\ slot[2].cache = "MISS"
    /\ slot[1].pending[1].expires # slot[2].pending[1].expires
    /\ slot[1].supabaseResponse # slot[2].supabaseResponse
    /\ \E p \in Procs :
         /\ store[generateCacheKey(SelectUrl)] = slot[p].pending[1]
         /\ written[generateCacheKey(SelectUrl)].response =
                slot[p].supabaseResponse[1]

\* C18: in the handling of a single request there is at most one upstream
\* fetch, at most one store lookup and at most one store write, on every
\* path, the error paths included.
NoRetries ==
    \A p \in Procs :
        /\ slot[p].nFetch <= 1
        /\ slot[p].nLookup <= 1
        /\ slot[p].nWrite <= 1

\* A request whose upstream fetch raised ended after that one attempt.
NoRetriesSeen ==
    \E p \in Procs :
        /\ Done(slot[p]) /\ Authorized(slot[p]) /\ ~OnBypassRoute(slot[p])
        /\ slot[p].nLookup = 1 /\ slot[p].cache = "MISS"
        /\ slot[p].nFetch = 1 /\ slot[p].got = <<>>
        /\ slot[p].nWrite = 0
        /\ slot[p].result = <<InternalServerError>>

\* C19: in every request in which an upstream response was obtained, the
\* response returned is exactly that response, with its status, its headers
\* and its body unread; the handler's own 500 response is returned only when
\* the request has no upstream response.
VerbatimFallback ==
    \A p \in Procs :
        Done(slot[p]) =>
            /\ slot[p].got # <<>> =>
                 /\ ~slot[p].threw
                 /\ slot[p].result = slot[p].got
            /\ slot[p].result = <<InternalServerError>> => slot[p].got = <<>>

\* Encoding the body raised (it is not JSON) after the body had been read,
\* and the caller still got the upstream response whole.
VerbatimFallbackSeen ==
    \E p \in Procs :
        /\ Done(slot[p]) /\ slot[p].writeErr /\ slot[p].nWrite = 0
        /\ slot[p].got # <<>>
        /\ slot[p].got[1].body = NotJson("html")
        /\ slot[p].result = slot[p].got

\* The body is an envelope under the configured key whose plaintext is the
\* gzip of the JSON text of the compress-json form of x.
FullChain(body, x) ==
    /\ Genuine(body, getEncryptionKey(D1_CACHESTORE_ENCRYPTION_KEY))
    /\ body[2].b64.pt = gzipCompress(JSONstringify(compress(x)))

\* C20: in every reachable state the body of every row the handler built or
\* wrote is encrypt(gzipCompress(JSON-compress(body))), in that order, and
\* every body returned on a hit is what decrypt, then gzipExpand, then
\* JSON-decompress make of the row found; no row holds plaintext or
\* compressed but unencrypted bytes.
CodecChain ==
    /\ \A k \in DOMAIN store :
         FullChain(store[k].body, JSONparse(written[k].response.body)[1])
    /\ \A p \in Procs :
         /\ slot[p].pending # <<>> =>
              FullChain(slot[p].pending[1].body,
                        JSONparse(slot[p].got[1].body)[1])
         /\ slot[p].cache = "HIT" =>
              /\ slot[p].decrypted # <<>>
              /\ slot[p].result[1].body =
                   JSONstringify(decompress(JSONparse(
                       gzipExpand(slot[p].decrypted[1])[1])[1])[1])

\* A row was written and a later request was answered from it.
CodecChainSeen ==
    \E p \in Procs :
        /\ slot[p].cache = "HIT" /\ slot[p].request.method = "HEAD"
        /\ slot[p].found # <<>>
        /\ slot[p].found[1].body = store[slot[p].found[1].key].body
        /\ FullChain(slot[p].found[1].body, [id |-> 1])
        /\ slot[p].result[1].body = JsonText([id |-> 1])

\* C21: every store write is preceded, within the same request, by a
\* successful auth check, a non-bypass decision, a lookup that returned no
\* fresh decodable entry, an upstream fetch, and a shouldCacheResponse result
\* of true for the fetched response; nothing else writes to the store.
WriteOrdering ==
    [][/\ \A p \in Procs :
            slot'[p].nWrite > slot[p].nWrite =>
                /\ Authorized(slot[p]) /\ ~OnBypassRoute(slot[p])
                /\ slot[p].nLookup = 1 /\ ~slot[p].lookupErr
                /\ slot[p].cache = "MISS"
                /\ slot[p].found = <<>> \/ DecodeFails(slot[p])
                /\ slot[p].nFetch = 1 /\ slot[p].got # <<>>
                /\ slot[p].request.method \in {"GET", "HEAD"}
                /\ slot[p].got[1].status \in 200..299
                /\ shouldCacheResponse(slot[p].request, slot[p].got[1])
       /\ store' # store =>
            \E p \in Procs :
                /\ slot'[p].nWrite > slot[p].nWrite
                /\ store' = Upsert(store, slot[p].pending[1])]_vars

\* A request that missed, fetched a cacheable response and wrote it.
WriteOrderingSeen ==
    \E p \in Procs :
        /\ Done(slot[p]) /\ slot[p].nWrite = 1 /\ ~slot[p].writeErr
        /\ slot[p].nLookup = 1 /\ slot[p].cache = "MISS" /\ slot[p].nFetch = 1
        /\ slot[p].request.method = "HEAD" \/ slot[p].request.method = "GET"
        /\ generateCacheKey(slot[p].request.url) \in DOMAIN store
        /\ slot[p].seen # <<>>

\* C22: a lookup, whatever it finds, a 401 and a bypass request neither
\* delete nor modify a row: only the write of a request changes the store,
\* it replaces the row under its own key, and no key ever leaves the store.
LookupLeavesStore ==
    [][/\ DOMAIN store \subseteq DOMAIN store'
       /\ \A k \in DOMAIN store :
            store'[k] # store[k] =>
                \E p \in Procs :
                    /\ slot'[p].nWrite = slot[p].nWrite + 1
                    /\ slot[p].pending[1].key = k
                    /\ store'[k] = slot[p].pending[1]
       /\ \A p \in Procs :
            (slot'[p] # slot[p] /\ slot'[p].nWrite # slot[p].nWrite + 1) =>
                store' = store
       /\ now' # now => store' = store]_vars

\* A request missed on the expired row and wrote nothing, and the row is
\* still in the store.
LookupLeavesStoreSeen ==
    \E p \in Procs :
        /\ Done(slot[p]) /\ Authorized(slot[p])
        /\ slot[p].nLookup = 1 /\ slot[p].cache = "MISS"
        /\ slot[p].found = <<>> /\ slot[p].nWrite = 0
        /\ generateCacheKey(slot[p].request.url) \in DOMAIN store
        /\ store[generateCacheKey(slot[p].request.url)].expires = toISOString(0)

\* The stored headers text of the row is no JSON list of [name, value] pairs,
\* or its stored status is no HTTP status.
CorruptedRow(row) ==
    \/ JSONparse(row.headers) = <<>>
    \/ NewHeaders(JSONparse(row.headers)[1]) = <<>>
    \/ row.status \notin 200..599

\* C26: when the fresh row found has a headers text that is no JSON list of
\* [name, value] pairs, or a status that is no HTTP status, the lookup is a
\* miss and the request goes on to the upstream fetch; the caller is not
\* given a failure.
CorruptedRowIsMiss ==
    \A p \in Procs :
        (Done(slot[p]) /\ slot[p].nLookup = 1 /\ ~slot[p].lookupErr
         /\ slot[p].found # <<>> /\ CorruptedRow(slot[p].found[1])) =>
            /\ slot[p].cache = "MISS"
            /\ slot[p].nFetch = 1
            /\ slot[p].got # <<>> => slot[p].result = slot[p].got

\* C23: every request forwarded upstream carries neither the
\* x-cache-service-key header nor the x-ttl header, has the host of
\* SUPABASE_URL in place of its own, and keeps the method, the path, the
\* query string and every other header of the original.
UpstreamTransform ==
    \A p \in Procs :
        slot[p].nFetch >= 1 =>
            /\ slot[p].sent # <<>>
            /\ LET fwd == slot[p].sent[1]
                   to == URLparse(fwd.url)
                   from == URLparse(Chars(slot[p].request.url))
                   Other(h) == h[1] \notin {"x-cache-service-key", "x-ttl"}
               IN  /\ HeaderGet(fwd.headers, "x-cache-service-key") = <<>>
                   /\ HeaderGet(fwd.headers, "x-ttl") = <<>>
                   /\ to.hostname = <<"d", "b", ".", "s", "u", "p", "a", "b",
                                      "a", "s", "e", ".", "c", "o">>
                   /\ to.pathname = from.pathname
                   /\ to.search = from.search
                   /\ fwd.method = slot[p].request.method
                   /\ fwd.headers = SelectSeq(slot[p].request.headers, Other)

\* A POST with a query string and an Authorization header was forwarded.
UpstreamTransformSeen ==
    \E p \in Procs :
        /\ slot[p].nFetch = 1 /\ slot[p].sent # <<>>
        /\ slot[p].request.method = "POST"
        /\ slot[p].request.url = "https://w/rest/v1/t?id=eq.1&select=*"
        /\ HeaderGet(slot[p].request.headers, "x-ttl") = <<"1">>
        /\ slot[p].sent[1].headers = <<(<<"authorization", "Bearer a">>)>>
        /\ URLparse(slot[p].sent[1].url).search =
               <<"?", "i", "d", "=", "e", "q", ".", "1", "&", "s", "e", "l",
                 "e", "c", "t", "=", "*">>
        /\ URLparse(slot[p].sent[1].url).pathname =
               <<"/", "r", "e", "s", "t", "/", "v", "1", "/", "t">>

\* The path of the URL contains a member of the bypass-path set.
PathHasBypassMember(url) ==
    \E path \in bypassCacheOnPath :
        IncludesChars(URLparse(Chars(url)).pathname, Chars(path))

\* C24: a request takes the bypass route exactly when the path of its URL
\* contains a member of the bypass-path set; a URL whose path contains none,
\* such as one with "/realtime/" in the query string only, goes through the
\* lookup.
BypassExactlyOnPath ==
    \A p \in Procs :
        (Done(slot[p]) /\ Authorized(slot[p])) =>
            (slot[p].nLookup = 0 <=> PathHasBypassMember(slot[p].request.url))

\* The URL has no "/rest/" path segment, or carries a select= parameter at
\* some position of its query string.
SelectionRule(url) ==
    LET u == URLparse(Chars(url))
        select == <<"s", "e", "l", "e", "c", "t", "=">>
    IN  \/ ~IncludesChars(u.pathname, Chars("/rest/"))
        \/ IncludesChars(u.search, <<"?">> \o select)
        \/ IncludesChars(u.search, <<"&">> \o select)

\* The decision table of C25.
Cacheable(request, response) ==
    /\ response.status \in 200..299
    /\ LET cc == HeaderGet(response.headers, "cache-control")
       IN  cc = <<>> \/ ~Includes(cc[1], "no-store")
    /\ request.method \in {"GET", "HEAD"}
    /\ SelectionRule(request.url)

\* C25: the response of a request on a cacheable path is taken for caching
\* if and only if it is ok with a status in 200..299, its Cache-Control has
\* no no-store, the method is GET or HEAD, and the URL has no "/rest/" path
\* segment or carries select= at any position of the query string.
CacheabilityTable ==
    \A p \in Procs :
        (Done(slot[p]) /\ slot[p].nLookup = 1 /\ slot[p].got # <<>>) =>
            ((slot[p].nWrite = 1 \/ slot[p].writeErr)
                <=> Cacheable(slot[p].request, slot[p].got[1]))

\* The request of s ended in one of the four outcomes: the 401 response, the
\* upstream response, a response rebuilt from the store, or the 500 response.
TerminalOutcome(s) ==
    /\ ~s.threw
    /\ s.result # <<>>
    /\ \/ s.result = <<Unauthorized>>
       \/ s.got # <<>> /\ s.result = s.got
       \/ s.cache = "HIT" /\ s.nFetch = 0
       \/ s.result = <<InternalServerError>>

\* The part of C27 that is about ending at all.
EventuallyDone == (slot[1].pc \notin {"idle", "done"}) ~> Done(slot[1])

\* C27: given that every upstream fetch and store operation of a request
\* eventually returns or raises, the request eventually ends, in one of the
\* four terminal outcomes, whatever the other requests do.
Termination ==
    /\ [](Done(slot[1]) => TerminalOutcome(slot[1]))
    /\ EventuallyDone

\* C28: the response served on a hit depends only on the URL and the store:
\* two authorized requests for the same URL that hit the same fresh row get
\* the same status, headers and body, whatever their methods and their
\* other headers.
HitDependsOnUrlOnly ==
    \A p, q \in Procs :
        (slot[p].cache = "HIT" /\ slot[q].cache = "HIT"
         /\ slot[p].request.url = slot[q].request.url
         /\ slot[p].found = slot[q].found) =>
            /\ slot[p].result = slot[q].result
            /\ slot[p].result # <<>>
            /\ slot[p].nFetch = 0 /\ slot[q].nFetch = 0

\* A HEAD request and a GET request with an Authorization header and another
\* X-TTL hit the same row and got the same response.
HitDependsOnUrlOnlySeen ==
    /\ Done(slot[1]) /\ Done(slot[2])
    /\ slot[1].cache = "HIT" /\ slot[2].cache = "HIT"
    /\ slot[1].request.method = "HEAD" /\ slot[2].request.method = "GET"
    /\ HeaderGet(slot[1].request.headers, "authorization") = <<>>
    /\ HeaderGet(slot[2].request.headers, "authorization") = <<"Bearer a">>
    /\ slot[1].found = slot[2].found
    /\ slot[1].result = slot[2].result
    /\ slot[1].result[1].body = JsonText([id |-> 1])

\* The case of C29: the upstream response passed shouldCacheResponse and its
\* body is not JSON text.
NotJsonCase(s) ==
    /\ s.nLookup = 1 /\ s.got # <<>>
    /\ shouldCacheResponse(s.request, s.got[1])
    /\ JSONparse(s.got[1].body) = <<>>

\* C29: when shouldCacheResponse is true but the body of the upstream
\* response is not valid JSON text, the empty body of a HEAD response
\* included, cacheResponse raises before any store write: nothing is stored,
\* the store is unchanged, and the caller receives the upstream response.
NotJsonNotStored ==
    /\ [](\A p \in Procs :
            NotJsonCase(slot[p]) =>
                /\ slot[p].nWrite = 0 /\ slot[p].pending = <<>>
                /\ Done(slot[p]) =>
                     /\ slot[p].writeErr
                     /\ slot[p].result = slot[p].got)
    /\ [][\A p \in Procs :
            (slot'[p] # slot[p] /\ NotJsonCase(slot'[p])) =>
                store' = store]_vars

\* A HEAD request got a 200 with an empty body and nothing was stored for it.
NotJsonNotStoredSeen ==
    \E p \in Procs :
        /\ Done(slot[p]) /\ NotJsonCase(slot[p])
        /\ slot[p].request.method = "HEAD"
        /\ slot[p].got[1].body = NotJson("empty")
        /\ slot[p].cache = "MISS" /\ slot[p].writeErr /\ slot[p].nWrite = 0
        /\ slot[p].result = slot[p].got
        /\ generateCacheKey(slot[p].request.url) \notin DOMAIN store

\* C30: parseTTL gives a positive integer for every header set, the default
\* 900 when X-TTL is present but zero, negative or not a number, whatever
\* Cache-Control says; so every row built or written expires strictly after
\* the instant of its write.
TtlAlwaysPositive ==
    /\ \A p \in Procs :
         Authorized(slot[p]) =>
             LET x == HeaderGet(slot[p].request.headers, "x-ttl")
             IN  /\ slot[p].ttl \in Nat /\ slot[p].ttl > 0
                 /\ (x # <<>> /\ PositiveXTtl(x[1]) = <<>>) =>
                        slot[p].ttl = defaultTTL
                 /\ slot[p].pending # <<>> =>
                        /\ slot[p].pending[1].expires =
                               toISOString(slot[p].wtime + slot[p].ttl)
                        /\ TextGreater(slot[p].pending[1].expires,
                                       toISOString(slot[p].wtime))
    /\ \A k \in DOMAIN store :
         /\ written[k].ttl > 0
         /\ TextGreater(store[k].expires, toISOString(written[k].wtime))

\* A request with X-TTL: 0 and Cache-Control: max-age=2 wrote a row that
\* expires 900 seconds after its write.
TtlAlwaysPositiveSeen ==
    \E p \in Procs :
        /\ Done(slot[p]) /\ slot[p].nWrite = 1 /\ ~slot[p].writeErr
        /\ HeaderGet(slot[p].request.headers, "x-ttl") = <<"0">>
        /\ HeaderGet(slot[p].request.headers, "cache-control") = <<"max-age=2">>
        /\ slot[p].ttl = 900
        /\ store[generateCacheKey(slot[p].request.url)].expires =
               toISOString(slot[p].wtime + 900)

====
